---- MODULE Spec2Model ----
(***************************************************************************)
(* Model of frontend/src/environments/environment.ts: the exported         *)
(* `environment` object literal, the property reads and property writes    *)
(* that the object admits, and a JSON round trip of the whole structure.   *)
(***************************************************************************)
EXTENDS Naturals, Sequences, FiniteSets, TLC

(* ------------------------------------------------------------------ *)
(* Bounds                                                             *)
(* ------------------------------------------------------------------ *)

\* number of consumers that hold a reference to the exported object
NumConsumers == 2

\* number of fields that may differ from the literal before writes stop
MaxWrites == 1

Consumers == 1..NumConsumers

(* ------------------------------------------------------------------ *)
(* JavaScript values                                                  *)
(* ------------------------------------------------------------------ *)

Bool(b) == [type |-> "boolean", b |-> b, s |-> "", props |-> <<>>]
Str(s) == [type |-> "string", b |-> FALSE, s |-> s, props |-> <<>>]
Undefined == [type |-> "undefined", b |-> FALSE, s |-> "", props |-> <<>>]
Null == [type |-> "null", b |-> FALSE, s |-> "", props |-> <<>>]
\* an object: its own enumerable properties, in insertion order
Obj(props) == [type |-> "object", b |-> FALSE, s |-> "", props |-> props]
Prop(k, v) == [key |-> k, val |-> v]

\* outcome of a property access that throws (read of a member of undefined/null)
TypeError == [type |-> "TypeError", b |-> FALSE, s |-> "", props |-> <<>>]
\* a consumer's slot before it has read the field
Unread == [type |-> "unread", b |-> FALSE, s |-> "", props |-> <<>>]
\* no parse result yet
Unparsed == [type |-> "unparsed", b |-> FALSE, s |-> "", props |-> <<>>]

(* ------------------------------------------------------------------ *)
(* The object literal, field by field                                 *)
(* ------------------------------------------------------------------ *)

production_flipped == Bool(TRUE)
production_quoted == Str("false")
production == Bool(FALSE)

apiServerUrl_other == Str("http://localhost:5000")
apiServerUrl == Str("http://127.0.0.1:5000")

url == Str("dev-6wikmw4d.us.auth0.com")

audience_other == Str("coffee")
audience == Str("coffee_shop")

clientId_empty == Str("")
clientId_missing == Undefined
clientId == Str("I0sxOj09Gcl40n2FYKcZZuiN0HA9US1b")

callbackURL == Str("http://localhost:8100")

auth0_missing == Undefined
auth0 ==
  Obj(<< Prop("url", url), Prop("audience", audience),
         Prop("clientId", clientId), Prop("callbackURL", callbackURL) >>)

\* the value of `environment` once the module has been evaluated
environmentLiteral ==
  Obj(<< Prop("production", production), Prop("apiServerUrl", apiServerUrl),
         Prop("auth0", auth0) >>)

\* the property paths the literal declares, in declaration order
FieldOrder ==
  << <<"production">>, <<"apiServerUrl">>, <<"auth0", "url">>,
     <<"auth0", "audience">>, <<"auth0", "clientId">>, <<"auth0", "callbackURL">> >>

Fields == { FieldOrder[i] : i \in 1..Len(FieldOrder) }

StringFields == Fields \ { <<"production">> }

\* the values an assignment to the field may carry under the literal's inferred
\* type (boolean for production, string for the rest)
Assignable(f) ==
  IF f = <<"production">> THEN { Bool(TRUE), Bool(FALSE) }
  ELSE { Str(""), Str("http://example.test") }

(* ------------------------------------------------------------------ *)
(* Property access                                                    *)
(* ------------------------------------------------------------------ *)

Keys(o) == { o.props[i].key : i \in 1..Len(o.props) }

\* o.k on an object: the property's value, undefined when there is none
Lookup(o, k) ==
  IF k \in Keys(o)
    THEN (o.props[CHOOSE i \in 1..Len(o.props) : o.props[i].key = k]).val
    ELSE Undefined

\* v.k on any value: throws on undefined/null, undefined on a primitive
Member(v, k) ==
  IF v.type \in {"undefined", "null", "TypeError"} THEN TypeError
  ELSE IF v.type = "object" THEN Lookup(v, k)
  ELSE Undefined

\* environment.a or environment.a.b
GetPath(v, path) ==
  IF Len(path) = 1 THEN Member(v, path[1])
  ELSE Member(Member(v, path[1]), path[2])

\* o.k = x on an object: replaces an existing property in place
Assign(o, k, x) ==
  IF k \in Keys(o)
    THEN Obj([i \in 1..Len(o.props) |->
               IF o.props[i].key = k THEN Prop(k, x) ELSE o.props[i]])
    ELSE Obj(Append(o.props, Prop(k, x)))

\* environment.a = x or environment.a.b = x
SetPath(v, path, x) ==
  IF Len(path) = 1 THEN Assign(v, path[1], x)
  ELSE Assign(v, path[1], Assign(Lookup(v, path[1]), path[2], x))

(* ------------------------------------------------------------------ *)
(* JSON.stringify / JSON.parse, over a sequence of tokens             *)
(* ------------------------------------------------------------------ *)

Punct(p) == [kind |-> "punct", text |-> p]
Lit(l) == [kind |-> "literal", text |-> l]
\* a double-quoted string; none of the strings here needs an escape
Quoted(s) == [kind |-> "string", text |-> s]

RECURSIVE SerializeValue(_)
RECURSIVE SerializeMembers(_, _)

\* the members of an object; a property whose value is undefined is left out
SerializeMembers(props, first) ==
  IF props = <<>> THEN <<>>
  ELSE LET p == Head(props) IN
    IF p.val.type = "undefined" THEN SerializeMembers(Tail(props), first)
    ELSE (IF first THEN <<>> ELSE << Punct(",") >>)
         \o << Quoted(p.key), Punct(":") >> \o SerializeValue(p.val)
         \o SerializeMembers(Tail(props), FALSE)

SerializeValue(v) ==
  CASE v.type = "boolean" -> << Lit(IF v.b THEN "true" ELSE "false") >>
    [] v.type = "string" -> << Quoted(v.s) >>
    [] v.type = "object" ->
         << Punct("{") >> \o SerializeMembers(v.props, TRUE) \o << Punct("}") >>
    [] OTHER -> << Lit("null") >>

Stringify(v) == SerializeValue(v)

RECURSIVE ParseValue(_)
RECURSIVE ParseMembers(_, _)

\* after "{" or ",": key ":" value, then "," or "}"
ParseMembers(toks, acc) ==
  LET member == ParseValue(Tail(Tail(toks)))
      props == Append(acc, Prop(Head(toks).text, member.val))
      next == Head(member.rest)
  IN IF next = Punct(",") THEN ParseMembers(Tail(member.rest), props)
     ELSE [val |-> Obj(props), rest |-> Tail(member.rest)]

\* one value off the front of the tokens: [val, rest]
ParseValue(toks) ==
  LET t == Head(toks) IN
  CASE t.kind = "literal" ->
         [val |-> (IF t.text = "null" THEN Null ELSE Bool(t.text = "true")),
          rest |-> Tail(toks)]
    [] t.kind = "string" -> [val |-> Str(t.text), rest |-> Tail(toks)]
    [] OTHER ->
         IF Head(Tail(toks)) = Punct("}")
           THEN [val |-> Obj(<<>>), rest |-> Tail(Tail(toks))]
           ELSE ParseMembers(Tail(toks), <<>>)

Parse(toks) == ParseValue(toks).val

RECURSIVE DeepEqual(_, _)
\* same type; same primitive value; same keys with deep-equal values
DeepEqual(a, b) ==
  /\ a.type = b.type
  /\ a.b = b.b
  /\ a.s = b.s
  /\ Keys(a) = Keys(b)
  /\ Len(a.props) = Len(b.props)
  /\ \A k \in Keys(a) : DeepEqual(Lookup(a, k), Lookup(b, k))

(* ------------------------------------------------------------------ *)
(* State                                                              *)
(* ------------------------------------------------------------------ *)

VARIABLES
  environment,  \* the exported object
  pc,           \* pc[c]: index in FieldOrder of the field consumer c reads next
  seen,         \* seen[c][f]: what consumer c got from its latest read of f
  wire,         \* the serialized text in flight (<<>>: none)
  parsed        \* the value parsed back from the wire

vars == << environment, pc, seen, wire, parsed >>

Init ==
  /\ environment = environmentLiteral
  /\ pc = [c \in Consumers |-> 1]
  /\ seen = [c \in Consumers |-> [f \in Fields |-> Unread]]
  /\ wire = <<>>
  /\ parsed = Unparsed

\* the field after position i, back to the first after the last
Advance(i) == IF i = Len(FieldOrder) THEN 1 ELSE i + 1

\* a read that consumes the property it returns
ReadAndClear(c) ==
  LET f == FieldOrder[pc[c]] IN
  /\ seen' = [seen EXCEPT ![c][f] = GetPath(environment, f)]
  /\ environment' = SetPath(environment, f, Undefined)
  /\ pc' = [pc EXCEPT ![c] = Advance(pc[c])]
  /\ UNCHANGED << wire, parsed >>

\* a read that waits while another consumer is part-way through the fields
ReadExclusive(c) ==
  LET f == FieldOrder[pc[c]] IN
  /\ \A d \in Consumers \ {c} : pc[d] = 1
  /\ seen' = [seen EXCEPT ![c][f] = GetPath(environment, f)]
  /\ pc' = [pc EXCEPT ![c] = Advance(pc[c])]
  /\ UNCHANGED << environment, wire, parsed >>

\* consumer c evaluates environment.<f> for the next field f of its pass
Read(c) ==
  LET f == FieldOrder[pc[c]] IN
  /\ seen' = [seen EXCEPT ![c][f] = GetPath(environment, f)]
  /\ pc' = [pc EXCEPT ![c] = Advance(pc[c])]
  /\ UNCHANGED << environment, wire, parsed >>

\* number of fields whose value is not the literal's
Mutations(env) ==
  Cardinality({ f \in Fields : GetPath(env, f) # GetPath(environmentLiteral, f) })

\* consumer c evaluates environment.<f> = v
Write(c, f, v) ==
  /\ Mutations(environment) < MaxWrites
  /\ environment' = SetPath(environment, f, v)
  /\ UNCHANGED << pc, seen, wire, parsed >>

\* JSON.stringify(environment)
Serialize ==
  /\ wire' = Stringify(environment)
  /\ UNCHANGED << environment, pc, seen, parsed >>

\* JSON.parse of the text in flight
Deserialize ==
  /\ wire # <<>>
  /\ parsed' = Parse(wire)
  /\ UNCHANGED << environment, pc, seen, wire >>

\* consumers that only read, as the importing modules do
Next ==
  \/ \E c \in Consumers : Read(c)
  \/ Serialize
  \/ Deserialize

Spec == Init /\ [][Next]_vars

\* consumers that also use the assignments the object admits
NextW ==
  \/ \E c \in Consumers : Read(c)
  \/ \E c \in Consumers, f \in Fields : \E v \in Assignable(f) : Write(c, f, v)
  \/ Serialize
  \/ Deserialize

SpecW == Init /\ [][NextW]_vars

(* ------------------------------------------------------------------ *)
(* Properties                                                         *)
(* ------------------------------------------------------------------ *)

\* what one reader alone, reading the fields one after the other, gets
SequentialRead == [f \in Fields |-> GetPath(environmentLiteral, f)]

\* the type the declared shape gives each field
DeclaredType(f) == IF f = <<"production">> THEN "boolean" ELSE "string"

\* consumer c has read every field at least once
PassComplete(c) == \A f \in Fields : seen[c][f] # Unread

\* C1: the exported object is never mutated: whatever reads and permitted
\* writes consumers perform, every field still holds the value it was
\* created with.
C1_NeverMutated ==
  \A f \in Fields : GetPath(environment, f) = GetPath(environmentLiteral, f)

\* C2: the configuration has exactly the declared shape in every reachable
\* state: production is a boolean, apiServerUrl a non-null string, auth0 a
\* nested record of four non-null strings; every value read has that type.
C2_DeclaredShape ==
  /\ environment.type = "object"
  /\ Keys(environment) = {"production", "apiServerUrl", "auth0"}
  /\ Len(environment.props) = 3
  /\ Lookup(environment, "auth0").type = "object"
  /\ Keys(Lookup(environment, "auth0")) = {"url", "audience", "clientId", "callbackURL"}
  /\ Len(Lookup(environment, "auth0").props) = 4
  /\ \A f \in Fields : GetPath(environment, f).type = DeclaredType(f)
  /\ \A c \in Consumers, f \in Fields :
       seen[c][f].type \in {"unread", DeclaredType(f)}

C2_Witness ==
  \E c \in Consumers :
    /\ seen[c][<<"production">>].type = "boolean"
    /\ \A f \in StringFields : seen[c][f].type = "string"

\* C3: all six fields are present and every string field is a non-empty
\* string, in every reachable state.
C3_PresentNonEmpty ==
  /\ \A f \in Fields : GetPath(environment, f).type \in {"boolean", "string"}
  /\ \A f \in StringFields :
       /\ GetPath(environment, f).type = "string"
       /\ GetPath(environment, f).s # ""
  /\ \A c \in Consumers, f \in StringFields :
       seen[c][f] # Unread => (seen[c][f].type = "string" /\ seen[c][f].s # "")

C3_Witness ==
  \E c \in Consumers :
    /\ pc[c] = 1
    /\ \A f \in StringFields : seen[c][f].type = "string" /\ seen[c][f].s # ""

\* C4: a read leaves the configuration (and everything but the reader's own
\* result) unchanged, and a later read of a field returns the value an
\* earlier read of it returned, whatever reads happened in between.
C4_ReadsStable ==
  [][ /\ pc' # pc => (environment' = environment /\ wire' = wire /\ parsed' = parsed)
      /\ \A c \in Consumers, f \in Fields :
           seen[c][f] # Unread => seen'[c][f] = seen[c][f] ]_vars

C4_Witness ==
  \E c \in Consumers :
    /\ PassComplete(c)
    /\ pc[c] = 4
    /\ \E d \in Consumers \ {c} : pc[d] = 3
    /\ seen[c] = SequentialRead
    /\ environment = environmentLiteral

\* C5: under every interleaving of the consumers' reads, no read is ever
\* blocked, every value a consumer has read is the one a single sequential
\* reader gets, two consumers never hold differing values for a field, and a
\* consumer that has read all fields holds the complete set.
C5_ConcurrentReads ==
  /\ \A c \in Consumers : ENABLED Read(c)
  /\ \A c \in Consumers, f \in Fields :
       seen[c][f] # Unread => seen[c][f] = SequentialRead[f]
  /\ \A c, d \in Consumers, f \in Fields :
       (seen[c][f] # Unread /\ seen[d][f] # Unread) => seen[c][f] = seen[d][f]
  /\ \A c \in Consumers : PassComplete(c) => seen[c] = SequentialRead

C5_Witness ==
  /\ pc[1] = 5
  /\ pc[2] = 3
  /\ ~PassComplete(1)
  /\ ~PassComplete(2)
  /\ \A f \in Fields :
       (seen[1][f] # Unread /\ seen[2][f] # Unread) => seen[1][f] = seen[2][f]

\* C6: a read of any declared field succeeds and returns a defined value in
\* every reachable state: nothing throws, nothing is undefined or null, and
\* the configuration is never unpopulated.
C6_ReadsSucceed ==
  /\ \A f \in Fields :
       GetPath(environment, f).type \notin {"TypeError", "undefined", "null"}
  /\ \A c \in Consumers, f \in Fields :
       seen[c][f].type \notin {"TypeError", "undefined", "null"}
  /\ \A c \in Consumers : ENABLED Read(c)

C6_Witness ==
  \A c \in Consumers :
    /\ PassComplete(c)
    /\ \A f \in Fields : seen[c][f].type \in {"boolean", "string"}

\* C7: serializing the whole structure to JSON and parsing the text back
\* yields a value deep-equal to the original: same keys at both levels, same
\* value and same type (boolean or string) for every field.
C7_RoundTrip ==
  /\ wire # <<>> => DeepEqual(Parse(wire), environment)
  /\ parsed # Unparsed =>
       /\ DeepEqual(parsed, environment)
       /\ Keys(parsed) = Keys(environment)
       /\ Keys(Lookup(parsed, "auth0")) = Keys(Lookup(environment, "auth0"))
       /\ \A f \in Fields : GetPath(parsed, f) = GetPath(environment, f)

C7_Witness ==
  /\ parsed # Unparsed
  /\ wire = Stringify(environment)
  /\ GetPath(parsed, <<"production">>) = Bool(FALSE)
  /\ GetPath(parsed, <<"auth0", "audience">>) = Str("coffee_shop")

\* C8: reading production returns exactly false, at every point of the
\* process lifetime.
C8_ProductionFalse ==
  /\ GetPath(environment, <<"production">>) = Bool(FALSE)
  /\ \A c \in Consumers :
       seen[c][<<"production">>] \in {Unread, Bool(FALSE)}

C8_Witness ==
  \E c \in Consumers :
    /\ PassComplete(c)
    /\ pc[c] = 2
    /\ seen[c][<<"production">>] = Bool(FALSE)

\* C9: reading apiServerUrl returns exactly "http://127.0.0.1:5000", at every
\* point of the process lifetime.
C9_ApiServerUrl ==
  /\ GetPath(environment, <<"apiServerUrl">>) = Str("http://127.0.0.1:5000")
  /\ \A c \in Consumers :
       seen[c][<<"apiServerUrl">>] \in {Unread, Str("http://127.0.0.1:5000")}

C9_Witness ==
  \E c \in Consumers :
    /\ PassComplete(c)
    /\ pc[c] = 3
    /\ seen[c][<<"apiServerUrl">>] = Str("http://127.0.0.1:5000")

\* C10: reading auth0.audience returns exactly "coffee_shop", at every point
\* of the process lifetime.
C10_Audience ==
  /\ GetPath(environment, <<"auth0", "audience">>) = Str("coffee_shop")
  /\ \A c \in Consumers :
       seen[c][<<"auth0", "audience">>] \in {Unread, Str("coffee_shop")}

C10_Witness ==
  \E c \in Consumers :
    /\ PassComplete(c)
    /\ pc[c] = 5
    /\ seen[c][<<"auth0", "audience">>] = Str("coffee_shop")

====
